---------------------------- MODULE Spec2Model ----------------------------
(***************************************************************************)
(* TOON codec of src/formats/converters.py: dict_to_toon (encoder) and     *)
(* toon_to_dict (decoder, a recursive descent over indentation).           *)
(*                                                                         *)
(* Text is a sequence of characters, each character a one-element string.  *)
(* The string "SUP2" stands for the single character U+00B2 (superscript   *)
(* two), for which Python's str.isdigit() is True and int() raises, and    *)
(* "ARABIC3" for U+0663 (Arabic-Indic digit three), a decimal digit that   *)
(* int() reads as 3.                                                       *)
(* Values are tagged records:                                              *)
(*   [t |-> "str",  v |-> text]      [t |-> "int",  v |-> n]               *)
(*   [t |-> "bool", v |-> BOOLEAN]   [t |-> "list", v |-> Seq(value)]      *)
(*   [t |-> "obj",  v |-> mapping]                                         *)
(* A mapping (a Python dict) is a sequence of [k |-> text, v |-> value]    *)
(* with distinct keys, in insertion order.                                 *)
(***************************************************************************)
EXTENDS Integers, Sequences, FiniteSets, TLC

----------------------------------------------------------------------------
(* Characters *)

NL == "\n"
SP == " "
SUP2 == "SUP2"
ARABIC3 == "ARABIC3"

AsciiDigits == {"0", "1", "2", "3", "4", "5", "6", "7", "8", "9"}

\* the characters of Unicode category Nd, the digits int() reads
DecimalDigits == AsciiDigits \cup {ARABIC3}

\* str.isspace() on the characters of the model's alphabet
IsSpace(c) == c \in {SP, NL}

\* str.isdigit() of one character: the decimal digits, and also characters
\* such as U+00B2 that are digits without being decimal
IsDigitChar(c) == c \in DecimalDigits \cup {SUP2}

DigitVal(c) ==
    CASE c = "0" -> 0 [] c = "1" -> 1 [] c = "2" -> 2 [] c = "3" -> 3
      [] c = "4" -> 4 [] c = "5" -> 5 [] c = "6" -> 6 [] c = "7" -> 7
      [] c = "8" -> 8 [] c = "9" -> 9 [] c = ARABIC3 -> 3

DigitChar(n) ==
    CASE n = 0 -> "0" [] n = 1 -> "1" [] n = 2 -> "2" [] n = 3 -> "3"
      [] n = 4 -> "4" [] n = 5 -> "5" [] n = 6 -> "6" [] n = 7 -> "7"
      [] n = 8 -> "8" [] n = 9 -> "9"

\* str.lower() of one character
LowerChar(c) ==
    CASE c = "T" -> "t" [] c = "R" -> "r" [] c = "U" -> "u" [] c = "E" -> "e"
      [] c = "F" -> "f" [] c = "A" -> "a" [] c = "L" -> "l" [] c = "S" -> "s"
      [] OTHER -> c

----------------------------------------------------------------------------
(* Python str operations on texts *)

Lower(s) == [j \in 1..Len(s) |-> LowerChar(s[j])]

\* p occurs in s at (1-based) position j
OccursAt(s, p, j) ==
    /\ j >= 1
    /\ j + Len(p) - 1 <= Len(s)
    /\ \A n \in 1..Len(p) : s[j + n - 1] = p[n]

Contains(s, p) == \E j \in 1..(Len(s) + 1) : OccursAt(s, p, j)

\* position of the leftmost occurrence of p in s at or after from; 0 if none
RECURSIVE FindFrom(_, _, _)
FindFrom(s, p, from) ==
    IF from + Len(p) - 1 > Len(s) THEN 0
    ELSE IF OccursAt(s, p, from) THEN from
    ELSE FindFrom(s, p, from + 1)

StartsWith(s, p) == OccursAt(s, p, 1)
EndsWith(s, p) == Len(p) <= Len(s) /\ OccursAt(s, p, Len(s) - Len(p) + 1)

RECURSIVE LStrip(_)
LStrip(s) ==
    IF s # <<>> /\ IsSpace(Head(s)) THEN LStrip(Tail(s)) ELSE s

RECURSIVE RStrip(_)
RStrip(s) ==
    IF s # <<>> /\ IsSpace(s[Len(s)])
    THEN RStrip(SubSeq(s, 1, Len(s) - 1)) ELSE s

Strip(s) == RStrip(LStrip(s))

\* s.split(p) for a non-empty separator p: always at least one piece
RECURSIVE Split(_, _)
Split(s, p) ==
    LET j == FindFrom(s, p, 1)
    IN  IF j = 0 THEN <<s>>
        ELSE <<SubSeq(s, 1, j - 1)>> \o Split(SubSeq(s, j + Len(p), Len(s)), p)

\* mutant: the text before and after the last p
SplitOnceLast(s, p) ==
    LET j == CHOOSE n \in 1..Len(s) :
                 /\ OccursAt(s, p, n)
                 /\ \A h \in (n + 1)..Len(s) : ~OccursAt(s, p, h)
    IN  <<SubSeq(s, 1, j - 1), SubSeq(s, j + Len(p), Len(s))>>

\* s.split(p, 1) when p occurs in s: the text before and after the first p
SplitOnce(s, p) ==
    LET j == FindFrom(s, p, 1)
    IN  <<SubSeq(s, 1, j - 1), SubSeq(s, j + Len(p), Len(s))>>

\* p.join(parts)
RECURSIVE Join(_, _)
Join(parts, p) ==
    IF parts = <<>> THEN <<>>
    ELSE IF Len(parts) = 1 THEN parts[1]
    ELSE parts[1] \o p \o Join(Tail(parts), p)

\* str(n) of a non-negative int
RECURSIVE StrOfInt(_)
StrOfInt(n) ==
    IF n < 10 THEN <<DigitChar(n)>>
    ELSE StrOfInt(n \div 10) \o <<DigitChar(n % 10)>>

\* s.isdigit()
IsDigitStr(s) == s # <<>> /\ \A j \in 1..Len(s) : IsDigitChar(s[j])

\* int(s) of a text of decimal digits
RECURSIVE IntOf(_)
IntOf(s) ==
    IF s = <<>> THEN 0
    ELSE 10 * IntOf(SubSeq(s, 1, Len(s) - 1)) + DigitVal(s[Len(s)])

\* int(s) raises ValueError on a digit that is not decimal
IntRaises(s) == \E j \in 1..Len(s) : s[j] \notin DecimalDigits

\* the literal texts of the source
SEPARATOR == <<NL, NL, "-", "-", "-", "-", "-", "-", "-", "-", NL, NL>>
COLON_SPACE == <<":", SP>>
COLON == <<":">>
COMMA_SPACE == <<",", SP>>
TWO_SPACES == <<SP, SP>>
TRUE_TEXT == <<"t", "r", "u", "e">>
FALSE_TEXT == <<"f", "a", "l", "s", "e">>

----------------------------------------------------------------------------
(* Values *)

StringV(s) == [t |-> "str", v |-> s]
IntegerV(n) == [t |-> "int", v |-> n]
BooleanV(b) == [t |-> "bool", v |-> b]
ListV(l) == [t |-> "list", v |-> l]
ObjectV(m) == [t |-> "obj", v |-> m]

\* str(value) of a scalar: str(True) is "True", str(False) is "False"
PyStr(value) ==
    CASE value.t = "str" -> value.v
      [] value.t = "int" -> StrOfInt(value.v)
      [] value.t = "bool" ->
            IF value.v THEN <<"T", "r", "u", "e">>
            ELSE <<"F", "a", "l", "s", "e">>

\* "  " * indent
RECURSIVE Spaces(_)
Spaces(indent) == IF indent = 0 THEN <<>> ELSE TWO_SPACES \o Spaces(indent - 1)

----------------------------------------------------------------------------
(* Encoder *)

\* mutant: the elements joined by a comma without the space
FormatListComma(value) ==
    <<"[">> \o Join([j \in 1..Len(value.v) |-> PyStr(value.v[j])], <<",">>)
            \o <<"]">>

FormatList(value) ==
    <<"[">> \o Join([j \in 1..Len(value.v) |-> PyStr(value.v[j])], COMMA_SPACE)
            \o <<"]">>

\* mutant: str(value) without .lower()
FormatBoolCapital(value) == PyStr(value)

\* str(value).lower() of a bool
FormatBool(value) == Lower(PyStr(value))

\* _format_value(value, indent): the text of a value; for a dict, its lines
\* joined by newlines
RECURSIVE _format_value(_, _)

\* mutant: a nested Object is written at the indent of the Object around it
DictLinesSameIndent(m, indent) ==
    LET space == Spaces(indent)
        RECURSIVE Go(_)
        Go(j) ==
            IF j > Len(m) THEN <<>>
            ELSE (IF m[j].v.t = "obj"
                  THEN << space \o TWO_SPACES \o m[j].k \o COLON,
                          _format_value(m[j].v, indent) >>
                  ELSE << space \o TWO_SPACES \o m[j].k \o COLON_SPACE
                            \o _format_value(m[j].v, indent) >>)
                 \o Go(j + 1)
    IN  Go(1)

\* the lines list built by _format_value for a dict
DictLines(m, indent) ==
    LET space == Spaces(indent)
        RECURSIVE Go(_)
        Go(j) ==
            IF j > Len(m) THEN <<>>
            ELSE (IF m[j].v.t = "obj"
                  THEN << space \o TWO_SPACES \o m[j].k \o COLON,
                          _format_value(m[j].v, indent + 1) >>
                  ELSE << space \o TWO_SPACES \o m[j].k \o COLON_SPACE
                            \o _format_value(m[j].v, indent + 1) >>)
                 \o Go(j + 1)
    IN  Go(1)

_format_value(value, indent) ==
    CASE value.t = "list" -> FormatList(value)
      [] value.t = "obj" -> Join(DictLines(value.v, indent), <<NL>>)
      [] value.t = "bool" -> FormatBool(value)
      [] OTHER -> PyStr(value)

\* the lines list built for one record by the loop of dict_to_toon
RecordLines(record) ==
    LET RECURSIVE Go(_)
        Go(j) ==
            IF j > Len(record) THEN <<>>
            ELSE (IF record[j].v.t = "obj"
                  THEN << record[j].k \o COLON, _format_value(record[j].v, 0) >>
                  ELSE << record[j].k \o COLON_SPACE
                            \o _format_value(record[j].v, 0) >>)
                 \o Go(j + 1)
    IN  Go(1)

RecordBlock(record) == Join(RecordLines(record), <<NL>>)

\* mutant: the blocks are joined by a line break only
dict_to_toon_newline(d) ==
    Join([j \in 1..Len(d) |-> RecordBlock(d[j])], <<NL>>)

\* mutant: a separator after every block, the last one included
dict_to_toon_trailing(d) ==
    Join([j \in 1..Len(d) |-> RecordBlock(d[j])] \o <<<<>>>>, SEPARATOR)

dict_to_toon(d) ==
    Join([j \in 1..Len(d) |-> RecordBlock(d[j])], SEPARATOR)

----------------------------------------------------------------------------
(* Decoder: type inference *)

\* the items kept by the list comprehension of _parse_value
RECURSIVE ListItems(_)
ListItems(items) ==
    IF items = <<>> THEN <<>>
    ELSE (IF Strip(Head(items)) # <<>>
          THEN <<StringV(Strip(Head(items)))>> ELSE <<>>)
         \o ListItems(Tail(items))

IsListToken(value) == StartsWith(value, <<"[">>) /\ EndsWith(value, <<"]">>)
IsBoolToken(value) == Lower(value) \in {TRUE_TEXT, FALSE_TEXT}

\* mutant: a digit-only token kept as text
ParseIntKeepsText(value) == StringV(value)

\* int(value)
ParseInt(value) ==
    IF IntRaises(value) THEN [t |-> "raise", v |-> value]
    ELSE IntegerV(IntOf(value))

\* _parse_value(value): the typed value, or [t |-> "raise"] when int() raises
ParseStripped(value) ==
    IF IsListToken(value)
    THEN ListV(ListItems(Split(SubSeq(value, 2, Len(value) - 1), COMMA_SPACE)))
    ELSE IF IsBoolToken(value) THEN BooleanV(Lower(value) = TRUE_TEXT)
    ELSE IF IsDigitStr(value) THEN ParseInt(value)
    ELSE StringV(value)

_parse_value(value) == ParseStripped(Strip(value))

----------------------------------------------------------------------------
(* Python dict operations on mappings *)

HasKey(m, key) == \E j \in 1..Len(m) : m[j].k = key

\* m[key] for a key the dict holds
Lookup(m, key) == m[CHOOSE j \in 1..Len(m) : m[j].k = key].v

\* mutant: a new key goes first
SetItemFirst(m, key, value) ==
    IF HasKey(m, key)
    THEN [j \in 1..Len(m) |-> IF m[j].k = key THEN [k |-> key, v |-> value]
                                               ELSE m[j]]
    ELSE <<[k |-> key, v |-> value]>> \o m

\* mutant: an existing key is removed and the new value goes last
SetItemMoves(m, key, value) ==
    LET RECURSIVE Without(_)
        Without(n) ==
            IF n = <<>> THEN <<>>
            ELSE IF Head(n).k = key THEN Without(Tail(n))
            ELSE <<Head(n)>> \o Without(Tail(n))
    IN  Append(Without(m), [k |-> key, v |-> value])

\* m[key] = value: an existing key keeps its position, a new key goes last
SetItem(m, key, value) ==
    IF HasKey(m, key)
    THEN [j \in 1..Len(m) |-> IF m[j].k = key THEN [k |-> key, v |-> value]
                                               ELSE m[j]]
    ELSE Append(m, [k |-> key, v |-> value])

KeysOf(m) == [j \in 1..Len(m) |-> m[j].k]

\* len(line) - len(line.lstrip())
IndentOf(line) == Len(line) - Len(LStrip(line))

----------------------------------------------------------------------------
(* Bounded inputs *)

MaxRecords == 2
MaxLines == 4

KeyNames == {<<"a">>, <<"b">>}

\* the dicts with at most n keys whose values are taken from V, in every
\* insertion order
RECURSIVE MappingsUpTo(_, _)
MappingsUpTo(V, n) ==
    IF n = 0 THEN {<<>>}
    ELSE LET prev == MappingsUpTo(V, n - 1)
         IN  prev \cup
             UNION {{Append(m, [k |-> key, v |-> val]) :
                        key \in KeyNames \ {m[j].k : j \in 1..Len(m)}, val \in V} :
                    m \in {p \in prev : Len(p) = n - 1}}

Mappings(V) == MappingsUpTo(V, Cardinality(KeyNames))

TextX == <<"x">>
TextMinus5 == <<"-", "5">>
Text12 == <<"1", "2">>
TextWithSeparator == <<"x">> \o SEPARATOR \o <<"y">>

ScalarValues ==
    {StringV(TextX), StringV(<<>>), StringV(TextMinus5),
     IntegerV(0), IntegerV(12), BooleanV(TRUE), BooleanV(FALSE),
     ListV(<<>>), ListV(<<StringV(TextX)>>),
     ListV(<<StringV(TextX), StringV(Text12)>>),
     ListV(<<StringV(TRUE_TEXT), StringV(TextX)>>),
     StringV(TextWithSeparator)}

NestedLeaf == {IntegerV(7)}
InnerObjects == {ObjectV(<<>>), ObjectV(<<[k |-> <<"a">>, v |-> IntegerV(7)]>>)}
OuterObjects == {ObjectV(m) : m \in Mappings(NestedLeaf \cup InnerObjects)}

FlatRecords == Mappings(ScalarValues)
NestedRecords == Mappings(NestedLeaf \cup OuterObjects)

SmallValues == {IntegerV(7), ObjectV(<<>>)}
SmallRecords == Mappings(SmallValues)

Datasets ==
    {<<r>> : r \in FlatRecords \cup NestedRecords}
    \cup UNION {[1..n -> SmallRecords] : n \in 0..MaxRecords}

\* lines of input text for the decoder
LineA1 == <<"a", ":", SP, "1">>
LineB == <<"b", ":">>
Line2Ax == <<SP, SP, "a", ":", SP, "x">>
Line2B == <<SP, SP, "b", ":">>
Line4A7 == <<SP, SP, SP, SP, "a", ":", SP, "7">>
LineBlank == <<>>
LineOther == <<"x">>

StructureLines == {LineA1, LineB, Line2Ax, Line2B, Line4A7, LineBlank}

\* raw value tokens for the decoder
Tokens ==
    {<<SUP2>>, <<"0", "0", "7">>, TextMinus5, <<"3", ".", "5">>,
     <<"T", "R", "U", "E">>, <<"T", "r", "u", "e">>, TRUE_TEXT,
     <<"F", "a", "l", "s", "e">>,
     <<"[", "t", "r", "u", "e", "]">>, <<"[", "1", "2", "]">>, <<"[", "]">>,
     <<"[", "x", ",", SP, "y", "]">>, <<"[">>, <<"x", "]">>,
     <<"b", ":", SP, "x">>, <<"b", ":">>, <<"b", ":", SP, "x", ":">>,
     <<SP, "x", SP>>, <<"1", "2">>,
     <<"1", SUP2>>, <<ARABIC3, "0">>}

StructureTexts ==
    {Join(ls, <<NL>>) : ls \in UNION {[1..n -> StructureLines] : n \in 0..MaxLines}}

TokenTexts ==
    {<<"a", ":", SP>> \o tok : tok \in Tokens}
    \cup {LineA1 \o <<NL>> \o <<"b", ":", SP>> \o tok : tok \in Tokens}

ChunkTexts == {LineA1, LineB, <<SP, SP>>, <<>>, LineOther}

SeparatedTexts ==
    {Join(cs, SEPARATOR) : cs \in UNION {[1..n -> ChunkTexts] : n \in 2..(MaxRecords + 1)}}

\* texts made only of whitespace
BlankTexts == {<<SP>>, <<SP, SP, NL, SP>>, <<NL, SP, NL>>}

\* texts of five lines whose headers open blocks at the indentations 0, 2, 0, 4
ReturnTexts ==
    {Join(<<LineB, Line2B, LineB, Line4A7, last>>, <<NL>>) : last \in {Line2Ax, LineA1}}

\* texts with a line of eight dashes that is not the separator
Dashes == SubSeq(SEPARATOR, 3, 10)
DashTexts ==
    {Dashes,
     LineA1 \o <<NL, NL>> \o Dashes \o <<NL>> \o LineB,
     LineA1 \o <<NL>> \o Dashes \o <<NL, NL>> \o LineA1,
     LineA1 \o <<NL>> \o Dashes \o <<NL>> \o LineB,
     LineB \o <<NL>> \o Line2Ax \o <<NL>> \o Dashes \o <<NL>> \o LineA1,
     LineA1 \o <<NL, NL, SP>> \o Dashes \o <<NL, NL>> \o LineB}

\* texts in which a key comes twice in one block, with different values
LineAx == <<"a", ":", SP, "x">>
LineBx == <<"b", ":", SP, "x">>
Line2Bx == <<SP, SP, "b", ":", SP, "x">>
Line2A1 == <<SP, SP, "a", ":", SP, "1">>
DuplicateTexts ==
    {Join(ls, <<NL>>) : ls \in {<<LineA1, LineBx, LineAx>>,
                                <<LineBx, LineA1, LineB>>,
                                <<LineB, Line2Ax, Line2Bx, Line2A1>>,
                                <<LineB, Line2Ax, LineB, Line2Bx>>}}

Texts ==
    StructureTexts \cup TokenTexts \cup SeparatedTexts \cup BlankTexts \cup ReturnTexts
    \cup DashTexts \cup DuplicateTexts

----------------------------------------------------------------------------
(* State *)

VARIABLES
    source,       \* "data": the run encodes data and decodes it; "text": it decodes toon_str
    data,         \* the argument of dict_to_toon
    toon_str,     \* the text returned by dict_to_toon, the argument of toon_to_dict
    record_strs,  \* toon_to_dict: the chunks of the split
    ri,           \* toon_to_dict: position of the for loop in record_strs (1-based)
    lines,        \* toon_to_dict: the lines of the current chunk
    stack,        \* the frames of _parse_lines, innermost last
    records,      \* toon_to_dict: the result list
    pc            \* "encode", "decode", "chunk", "parse", "done", "raised"

vars == <<source, data, toon_str, record_strs, ri, lines, stack, records, pc>>

\* the comparison tool (ComparisonEngine.run_comparison and the
\* TestDataGenerator it owns); idle while the codec alone is run
VARIABLES
    loaded_formats,  \* TestDataGenerator: format -> content of the input files found
    dataset_size,    \* run_comparison: "small", "medium", "large"
    json_strategy,   \* run_comparison: "pretty", "compact", "stringified", "minimal"
    detailed,        \* run_comparison: which provider method is called
    models,          \* run_comparison: provider name -> model name, <<>> for None
    providers,       \* ComparisonEngine: the providers, in list order
    test_data,       \* run_comparison: format -> content, as generate_all_formats returns it
    p_idx,           \* run_comparison: position of the provider loop (1-based)
    model,           \* run_comparison: the model chosen for the current provider
    f_idx,           \* run_comparison: position of the format loop (1-based)
    results,         \* run_comparison: the result list
    at               \* "idle", "generate", "provider", "format", "returned"

cvars == <<loaded_formats, dataset_size, json_strategy, detailed, models, providers,
           test_data, p_idx, model, f_idx, results, at>>

\* the comparison tool is not run
CompareIdle ==
    /\ loaded_formats = <<>>
    /\ dataset_size = "medium"
    /\ json_strategy = "pretty"
    /\ detailed = FALSE
    /\ models = <<>>
    /\ providers = <<>>
    /\ test_data = <<>>
    /\ p_idx = 1
    /\ model = ""
    /\ f_idx = 1
    /\ results = <<>>
    /\ at = "idle"

\* the codec is not run on its own
CodecIdle ==
    /\ source = "none"
    /\ data = <<>>
    /\ toon_str = <<>>
    /\ record_strs = <<>>
    /\ ri = 1
    /\ lines = <<>>
    /\ stack = <<>>
    /\ records = <<>>
    /\ pc = "idle"

\* a frame of _parse_lines: its locals
Frame(start_idx, current_indent) ==
    [result |-> <<>>, i |-> start_idx, start_idx |-> start_idx,
     current_indent |-> current_indent, key |-> <<>>]

\* the locals of a new call _parse_lines(ls, start_idx)
EnterParseLines(ls, start_idx) ==
    Frame(start_idx,
          IF start_idx < Len(ls) THEN IndentOf(ls[start_idx + 1]) ELSE 0)

Init ==
    /\ \/ /\ source = "data"
          /\ data \in Datasets
          /\ toon_str = <<>>
          /\ pc = "encode"
       \/ /\ source = "text"
          /\ data = <<>>
          /\ toon_str \in Texts
          /\ pc = "decode"
    /\ record_strs = <<>>
    /\ ri = 1
    /\ lines = <<>>
    /\ stack = <<>>
    /\ records = <<>>
    /\ CompareIdle

----------------------------------------------------------------------------
(* Operations *)

\* dict_to_toon(data)
Encode ==
    /\ pc = "encode"
    /\ toon_str' = dict_to_toon(data)
    /\ pc' = "decode"
    /\ UNCHANGED <<source, data, record_strs, ri, lines, stack, records>>
    /\ UNCHANGED cvars

\* mutant: any line of eight dashes splits the text
SplitRecordsAtDashes ==
    /\ pc = "decode"
    /\ record_strs' = Split(Strip(toon_str), <<NL>> \o SubSeq(SEPARATOR, 3, 10) \o <<NL>>)
    /\ ri' = 1
    /\ records' = <<>>
    /\ pc' = "chunk"
    /\ UNCHANGED <<source, data, toon_str, lines, stack>>
    /\ UNCHANGED cvars

\* toon_to_dict: records = [], the split into chunks
SplitRecords ==
    /\ pc = "decode"
    /\ record_strs' = Split(Strip(toon_str), SEPARATOR)
    /\ ri' = 1
    /\ records' = <<>>
    /\ pc' = "chunk"
    /\ UNCHANGED <<source, data, toon_str, lines, stack>>
    /\ UNCHANGED cvars

\* toon_to_dict: the for loop takes the next chunk and calls _parse_lines(lines, 0)
NextChunk ==
    /\ pc = "chunk"
    /\ ri <= Len(record_strs)
    /\ LET ls == Split(Strip(record_strs[ri]), <<NL>>)
       IN  /\ lines' = ls
           /\ stack' = <<EnterParseLines(ls, 0)>>
    /\ pc' = "parse"
    /\ UNCHANGED <<source, data, toon_str, record_strs, ri, records>>
    /\ UNCHANGED cvars

\* toon_to_dict: the for loop is over, return records
Finish ==
    /\ pc = "chunk"
    /\ ri > Len(record_strs)
    /\ pc' = "done"
    /\ UNCHANGED <<source, data, toon_str, record_strs, ri, lines, stack, records>>
    /\ UNCHANGED cvars

Top == stack[Len(stack)]
CurLine == lines[Top.i + 1]
InLoop == pc = "parse" /\ Top.i < Len(lines)
IsBlank(line) == Strip(line) = <<>>
AtReference ==
    /\ InLoop
    /\ ~IsBlank(CurLine)
    /\ IndentOf(CurLine) = Top.current_indent

\* the top frame with some locals changed
SetTop(f) == [stack EXCEPT ![Len(stack)] = f]
Advance == SetTop([Top EXCEPT !.i = Top.i + 1])

\* _parse_lines: "if not line.strip(): i += 1; continue"
SkipBlank ==
    /\ InLoop
    /\ IsBlank(CurLine)
    /\ stack' = Advance
    /\ UNCHANGED <<source, data, toon_str, record_strs, ri, lines, records, pc>>
    /\ UNCHANGED cvars

\* mutant: a deeper line ends the block's loop
SkipDeeperStops ==
    /\ InLoop
    /\ ~IsBlank(CurLine)
    /\ IndentOf(CurLine) > Top.current_indent
    /\ stack' = SetTop([Top EXCEPT !.i = Len(lines)])
    /\ UNCHANGED <<source, data, toon_str, record_strs, ri, lines, records, pc>>
    /\ UNCHANGED cvars

\* _parse_lines: "if indent > current_indent: i += 1; continue"
SkipDeeper ==
    /\ InLoop
    /\ ~IsBlank(CurLine)
    /\ IndentOf(CurLine) > Top.current_indent
    /\ stack' = Advance
    /\ UNCHANGED <<source, data, toon_str, record_strs, ri, lines, records, pc>>
    /\ UNCHANGED cvars

\* _parse_lines: a "key: value" line; result[key] = _parse_value(value)
KeyValue ==
    /\ AtReference
    /\ Contains(Strip(CurLine), COLON_SPACE)
    /\ LET kv == SplitOnce(Strip(CurLine), COLON_SPACE)
           parsed == _parse_value(kv[2])
       IN  IF parsed.t = "raise"
           THEN /\ pc' = "raised"
                /\ stack' = SetTop([Top EXCEPT !.key = kv[1]])
           ELSE /\ pc' = pc
                /\ stack' = SetTop([Top EXCEPT
                                      !.key = kv[1],
                                      !.result = SetItem(Top.result, kv[1], parsed),
                                      !.i = Top.i + 1])
    /\ UNCHANGED <<source, data, toon_str, record_strs, ri, lines, records>>
    /\ UNCHANGED cvars

\* _parse_lines: a "key:" line; the call _parse_lines(lines, i + 1)
KeyOnly ==
    /\ AtReference
    /\ ~Contains(Strip(CurLine), COLON_SPACE)
    /\ EndsWith(Strip(CurLine), COLON)
    /\ LET stripped == Strip(CurLine)
           key == SubSeq(stripped, 1, Len(stripped) - 1)
       IN  stack' = Append(SetTop([Top EXCEPT !.key = key]),
                           EnterParseLines(lines, Top.i + 1))
    /\ UNCHANGED <<source, data, toon_str, record_strs, ri, lines, records, pc>>
    /\ UNCHANGED cvars

\* _parse_lines: a line of neither shape; "else: i += 1"
SkipOther ==
    /\ AtReference
    /\ ~Contains(Strip(CurLine), COLON_SPACE)
    /\ ~EndsWith(Strip(CurLine), COLON)
    /\ stack' = Advance
    /\ UNCHANGED <<source, data, toon_str, record_strs, ri, lines, records, pc>>
    /\ UNCHANGED cvars

\* _parse_lines leaves its loop: the lines are over, or "indent < current_indent: break"
LoopExit ==
    /\ pc = "parse"
    /\ \/ Top.i >= Len(lines)
       \/ /\ Top.i < Len(lines)
          /\ ~IsBlank(CurLine)
          /\ IndentOf(CurLine) < Top.current_indent

\* mutant: the caller stores the nested mapping and stays at the header line
ReturnNestedStays ==
    /\ LoopExit
    /\ Len(stack) > 1
    /\ LET caller == stack[Len(stack) - 1]
       IN  stack' = Append(SubSeq(stack, 1, Len(stack) - 2),
                           [caller EXCEPT
                              !.result = SetItem(caller.result, caller.key,
                                                 ObjectV(Top.result))])
    /\ UNCHANGED <<source, data, toon_str, record_strs, ri, lines, records, pc>>
    /\ UNCHANGED cvars

\* "return result, i" to the caller's "nested, next_i = ...; result[key] = nested; i = next_i"
ReturnNested ==
    /\ LoopExit
    /\ Len(stack) > 1
    /\ LET caller == stack[Len(stack) - 1]
       IN  stack' = Append(SubSeq(stack, 1, Len(stack) - 2),
                           [caller EXCEPT
                              !.result = SetItem(caller.result, caller.key,
                                                 ObjectV(Top.result)),
                              !.i = Top.i])
    /\ UNCHANGED <<source, data, toon_str, record_strs, ri, lines, records, pc>>
    /\ UNCHANGED cvars

\* mutant: the record of a chunk is appended also when it is empty
ReturnRecordKeepsEmpty ==
    /\ LoopExit
    /\ Len(stack) = 1
    /\ records' = Append(records, Top.result)
    /\ stack' = <<>>
    /\ ri' = ri + 1
    /\ pc' = "chunk"
    /\ UNCHANGED <<source, data, toon_str, record_strs, lines>>
    /\ UNCHANGED cvars

\* "return result, i" to toon_to_dict: "if record: records.append(record)"
ReturnRecord ==
    /\ LoopExit
    /\ Len(stack) = 1
    /\ records' = IF Top.result # <<>> THEN Append(records, Top.result) ELSE records
    /\ stack' = <<>>
    /\ ri' = ri + 1
    /\ pc' = "chunk"
    /\ UNCHANGED <<source, data, toon_str, record_strs, lines>>
    /\ UNCHANGED cvars

Next ==
    \/ Encode
    \/ SplitRecords
    \/ NextChunk
    \/ Finish
    \/ SkipBlank
    \/ SkipDeeper
    \/ KeyValue
    \/ KeyOnly
    \/ SkipOther
    \/ ReturnNested
    \/ ReturnRecord

Spec == Init /\ [][Next]_vars

----------------------------------------------------------------------------
(* Test data: TestDataGenerator *)

JSON == "json"
CSV == "csv"
TOON == "toon"

\* the data files looked for, in the order of the format_files dict
FormatFiles == <<JSON, CSV, TOON>>

PRETTY == "pretty"
JSONStrategies == {PRETTY, "compact", "stringified", "minimal"}

KeyName == <<"n", "a", "m", "e">>
KeyRole == <<"r", "o", "l", "e">>
KeySkills == <<"s", "k", "i", "l", "l", "s">>
KeyActive == <<"a", "c", "t", "i", "v", "e">>
KeyExperience == <<"e", "x", "p", "e", "r", "i", "e", "n", "c", "e">>

SAMPLE_SMALL ==
    <<<<[k |-> KeyName, v |-> StringV(<<"J", "e", "n", "i", "l">>)],
      [k |-> KeyRole, v |-> StringV(<<"D", "e", "v", "e", "l", "o", "p", "e", "r">>)],
      [k |-> KeySkills,
       v |-> ListV(<<StringV(<<"C", "#">>),
                     StringV(<<".", "N", "E", "T">>),
                     StringV(<<"A", "n", "g", "u", "l", "a", "r">>)>>)],
      [k |-> KeyActive, v |-> BooleanV(TRUE)],
      [k |-> KeyExperience, v |-> IntegerV(4)]>>>>

SAMPLE_MEDIUM ==
    <<<<[k |-> KeyName, v |-> StringV(<<"J", "e", "n", "i", "l">>)],
      [k |-> KeyRole, v |-> StringV(<<"D", "e", "v", "e", "l", "o", "p", "e", "r">>)],
      [k |-> KeySkills,
       v |-> ListV(<<StringV(<<"C", "#">>),
                     StringV(<<".", "N", "E", "T">>),
                     StringV(<<"A", "n", "g", "u", "l", "a", "r">>)>>)],
      [k |-> KeyActive, v |-> BooleanV(TRUE)],
      [k |-> KeyExperience, v |-> IntegerV(4)]>>,
      <<[k |-> KeyName, v |-> StringV(<<"S", "a", "r", "a", "h">>)],
      [k |-> KeyRole, v |-> StringV(<<"D", "e", "s", "i", "g", "n", "e", "r">>)],
      [k |-> KeySkills,
       v |-> ListV(<<StringV(<<"F", "i", "g", "m", "a">>),
                     StringV(<<"S", "k", "e", "t", "c", "h">>),
                     StringV(<<"P", "h", "o", "t", "o", "s", "h", "o", "p">>)>>)],
      [k |-> KeyActive, v |-> BooleanV(TRUE)],
      [k |-> KeyExperience, v |-> IntegerV(6)]>>,
      <<[k |-> KeyName, v |-> StringV(<<"M", "a", "r", "c", "u", "s">>)],
      [k |-> KeyRole, v |-> StringV(<<"M", "a", "n", "a", "g", "e", "r">>)],
      [k |-> KeySkills,
       v |-> ListV(<<StringV(<<"L", "e", "a", "d", "e", "r", "s", "h", "i", "p">>),
                     StringV(<<"A", "g", "i", "l", "e">>),
                     StringV(<<"C", "o", "m", "m", "u", "n", "i", "c", "a", "t", "i", "o", "n">>)>>)],
      [k |-> KeyActive, v |-> BooleanV(FALSE)],
      [k |-> KeyExperience, v |-> IntegerV(10)]>>>>

Roles == <<<<"D", "e", "v", "e", "l", "o", "p", "e", "r">>, <<"D", "e", "s", "i", "g", "n", "e", "r">>, <<"M", "a", "n", "a", "g", "e", "r">>, <<"A", "n", "a", "l", "y", "s", "t">>>>

SAMPLE_LARGE ==
    [n \in 1..50 |->
        LET i == n - 1
        IN  <<[k |-> KeyName, v |-> StringV(<<"E", "m", "p", "l", "o", "y", "e", "e">> \o StrOfInt(i))],
              [k |-> KeyRole, v |-> StringV(Roles[(i % 4) + 1])],
              [k |-> KeySkills,
               v |-> ListV([h \in 1..(3 + (i % 5)) |->
                               StringV(<<"S", "k", "i", "l", "l">> \o StrOfInt(h - 1))])],
              [k |-> KeyActive, v |-> BooleanV(i % 3 # 0)],
              [k |-> KeyExperience, v |-> IntegerV((i % 15) + 1)]>>]

\* self.datasets.get(size, SAMPLE_MEDIUM)
get_dataset(size) ==
    CASE size = "small" -> SAMPLE_SMALL
      [] size = "large" -> SAMPLE_LARGE
      [] OTHER -> SAMPLE_MEDIUM

\* The content of a file or of a generated text. A JSON text is the document
\* it holds and the style it is written in; a document is a list of records,
\* a single record, or no document at all when the text is not valid JSON.
ListDoc(d) == [kind |-> "list", v |-> d]
DictDoc(m) == [kind |-> "dict", v |-> <<m>>]
BadDoc == [kind |-> "bad", v |-> <<>>]
JsonText(doc, style) == [fmt |-> JSON, doc |-> doc, style |-> style]

\* a CSV text is its lines, each line its cells; the empty text has no line
CsvText(ls) == [fmt |-> CSV, lines |-> ls]
ToonText(text) == [fmt |-> TOON, text |-> text]

\* the outcome of a call: a value, or an exception
Value(x) == [raised |-> FALSE, value |-> x]
Raises == [raised |-> TRUE, value |-> <<>>]

\* json_to_dict(json_str): json.loads raises on an invalid text; a single
\* record is wrapped in a list
json_to_dict(content) ==
    CASE content.doc.kind = "bad" -> Raises
      [] content.doc.kind = "dict" -> Value(<<content.doc.v[1]>>)
      [] OTHER -> Value(content.doc.v)

\* format_json(data, strategy): the data written in the style of the strategy
format_json(d, strategy) == JsonText(ListDoc(d), strategy)

\* the cell the DictWriter writes for a key: the value, or the empty restval
CsvCell(record, key) ==
    IF HasKey(record, key) THEN Lookup(record, key) ELSE StringV(<<>>)

\* dict_to_csv(data): the empty text for no record; else the header of the
\* first record's keys and one row per record; the DictWriter raises
\* ValueError for a record with a key that is not in the header
dict_to_csv(d) ==
    IF d = <<>> THEN Value(CsvText(<<>>))
    ELSE LET fieldnames == KeysOf(d[1])
             InHeader(key) == \E j \in 1..Len(fieldnames) : fieldnames[j] = key
         IN  IF \E r \in 1..Len(d) : \E j \in 1..Len(d[r]) : ~InHeader(d[r][j].k)
             THEN Raises
             ELSE Value(CsvText(
                      <<[j \in 1..Len(fieldnames) |-> StringV(fieldnames[j])]>>
                      \o [r \in 1..Len(d) |->
                             [j \in 1..Len(fieldnames) |->
                                 CsvCell(d[r], fieldnames[j])]]))

\* has_input_files()
has_input_files(loaded) == Len(loaded) > 0

\* generate_all_formats: the first loop, over the loaded files up to the n-th;
\* the JSON file is rewritten in the style asked for unless that is PRETTY or
\* the file cannot be parsed
RECURSIVE UseLoaded(_, _, _)
UseLoaded(loaded, n, strategy) ==
    IF n = 0 THEN <<>>
    ELSE LET result == UseLoaded(loaded, n - 1, strategy)
             format_type == loaded[n].k
             content == loaded[n].v
         IN  IF format_type = JSON /\ strategy # PRETTY
             THEN LET parsed == json_to_dict(content)
                  IN  IF parsed.raised
                      THEN SetItem(result, format_type, content)
                      ELSE SetItem(result, format_type,
                                   format_json(parsed.value, strategy))
             ELSE SetItem(result, format_type, content)

\* generate_all_formats: "Generate missing formats from loaded data if
\* possible"; an exception ends the try block and keeps what was added
GenerateMissing(loaded, result) ==
    IF HasKey(loaded, JSON) /\ Len(result) = 1
    THEN LET parsed == json_to_dict(Lookup(loaded, JSON))
         IN  IF parsed.raised THEN result
             ELSE LET csv == dict_to_csv(parsed.value)
                      with_csv == IF HasKey(result, CSV) THEN result
                                  ELSE SetItem(result, CSV, csv.value)
                  IN  IF ~HasKey(result, CSV) /\ csv.raised THEN result
                      ELSE IF HasKey(with_csv, TOON) THEN with_csv
                      ELSE SetItem(with_csv, TOON,
                                   ToonText(dict_to_toon(parsed.value)))
    ELSE result

\* generate_all_formats(size, json_strategy) of a generator that loaded the
\* files of loaded
generate_all_formats(loaded, size, strategy) ==
    IF has_input_files(loaded)
    THEN GenerateMissing(loaded, UseLoaded(loaded, Len(loaded), strategy))
    ELSE LET d == get_dataset(size)
         IN  <<[k |-> JSON, v |-> format_json(d, strategy)],
               [k |-> CSV, v |-> dict_to_csv(d).value],
               [k |-> TOON, v |-> ToonText(dict_to_toon(d))]>>

----------------------------------------------------------------------------
(* The comparison tool: ComparisonEngine.run_comparison *)

MaxProviders == 2

\* input files (their content is whatever the user wrote)
JsonDocs ==
    {ListDoc(<<>>),
     ListDoc(<<<<[k |-> <<"a">>, v |-> IntegerV(7)]>>>>),
     ListDoc(<<<<[k |-> <<"a">>, v |-> IntegerV(7)]>>,
               <<[k |-> <<"b">>, v |-> IntegerV(7)]>>>>),
     DictDoc(<<[k |-> <<"a">>, v |-> IntegerV(7)],
               [k |-> <<"b">>, v |-> ObjectV(<<>>)]>>),
     BadDoc}
JsonFiles ==
    {JsonText(doc, PRETTY) : doc \in JsonDocs}
    \cup {JsonText(ListDoc(<<<<[k |-> <<"a">>, v |-> IntegerV(7)]>>>>), "compact")}
CsvFile == CsvText(<<<<StringV(<<"a">>)>>, <<StringV(<<"1">>)>>>>)
ToonFile == ToonText(LineA1)

\* what _load_input_files can find: any of the three files, in the order of
\* format_files
LoadedFormats ==
    {json \o csv \o toon :
        json \in {<<>>} \cup {<<[k |-> JSON, v |-> c]>> : c \in JsonFiles},
        csv \in {<<>>, <<[k |-> CSV, v |-> CsvFile]>>},
        toon \in {<<>>, <<[k |-> TOON, v |-> ToonFile]>>}}

\* a provider: its name, the models it lists, and the formats for which its
\* token count call raises (the services are outside the program)
Provider(name, available, fails) ==
    [name |-> name, available |-> available, fails |-> fails]
Failures == {{}, {CSV}, {JSON, CSV, TOON}}
GeminiProviders ==
    {Provider("gemini", <<"gemini-2.5-flash", "gemini-2.0-flash-exp">>, fails) :
        fails \in Failures}
OpenAIProviders ==
    {Provider("openai", <<"gpt-4", "gpt-4-turbo">>, fails) : fails \in Failures}
AnthropicProviders ==
    {Provider("anthropic", <<"claude-3-5-sonnet-20241022">>, fails) :
        fails \in Failures}

\* create_providers: the enabled providers, in the order of provider_factories
ProviderLists ==
    {gemini \o openai \o anthropic :
        gemini \in {<<>>} \cup {<<g>> : g \in GeminiProviders},
        openai \in {<<>>} \cup {<<o>> : o \in OpenAIProviders},
        anthropic \in {<<>>} \cup {<<c>> : c \in AnthropicProviders}}

ModelChoices == {<<>>, <<[k |-> "openai", v |-> "gpt-4o"]>>}

CompareInit ==
    /\ CodecIdle
    /\ loaded_formats \in LoadedFormats
    /\ dataset_size \in (IF loaded_formats = <<>>
                         THEN {"small", "medium", "large"} ELSE {"medium"})
    /\ json_strategy \in {PRETTY, "minimal"}
    /\ detailed \in BOOLEAN
    /\ models \in ModelChoices
    /\ providers \in {ps \in ProviderLists : Len(ps) <= MaxProviders}
    /\ test_data = <<>>
    /\ p_idx = 1
    /\ model = ""
    /\ f_idx = 1
    /\ results = <<>>
    /\ at = "generate"

\* run_comparison: results = [], test_data = generate_all_formats(...)
GenerateTestData ==
    /\ at = "generate"
    /\ test_data' = generate_all_formats(loaded_formats, dataset_size, json_strategy)
    /\ results' = <<>>
    /\ p_idx' = 1
    /\ at' = "provider"
    /\ UNCHANGED <<loaded_formats, dataset_size, json_strategy, detailed, models,
                   providers, model, f_idx>>
    /\ UNCHANGED vars

\* the provider loop takes the next provider and chooses its model
NextProvider ==
    /\ at = "provider"
    /\ p_idx <= Len(providers)
    /\ LET provider == providers[p_idx]
       IN  model' = IF models # <<>> /\ HasKey(models, provider.name)
                    THEN Lookup(models, provider.name)
                    ELSE IF provider.available # <<>>
                         THEN provider.available[1]
                         ELSE "unknown"
    /\ f_idx' = 1
    /\ at' = "format"
    /\ UNCHANGED <<loaded_formats, dataset_size, json_strategy, detailed, models,
                   providers, test_data, p_idx, results>>
    /\ UNCHANGED vars

\* the token count call of the current provider raises for the current format
CallRaises == test_data[f_idx].k \in providers[p_idx].fails

\* result.to_dict(): the keys of the entry, and the fields the provider fills
\* from its own name and from the arguments of the call
ResultKeys ==
    {"total_tokens", "model", "provider", "format_type", "content_size_bytes",
     "tokens_per_byte", "timestamp"}
DetailedKeys == {"token_ids", "tokens", "overhead_tokens", "content_tokens"}
ErrorKeys == {"provider", "model", "format_type", "error", "timestamp"}
Entry(keys, provider_name, model_name, format_type) ==
    [keys |-> keys, provider |-> provider_name, model |-> model_name,
     format_type |-> format_type]

\* mutant: nothing is appended for a call that raises
CountTokensRaisesSilently ==
    /\ at = "format"
    /\ f_idx <= Len(test_data)
    /\ CallRaises
    /\ results' = results
    /\ f_idx' = f_idx + 1
    /\ UNCHANGED <<loaded_formats, dataset_size, json_strategy, detailed, models,
                   providers, test_data, p_idx, model, at>>
    /\ UNCHANGED vars

\* the format loop: the call returns, results.append(result.to_dict())
CountTokensReturns ==
    /\ at = "format"
    /\ f_idx <= Len(test_data)
    /\ ~CallRaises
    /\ results' = Append(results,
                         Entry(IF detailed THEN ResultKeys \cup DetailedKeys
                               ELSE ResultKeys,
                               providers[p_idx].name, model, test_data[f_idx].k))
    /\ f_idx' = f_idx + 1
    /\ UNCHANGED <<loaded_formats, dataset_size, json_strategy, detailed, models,
                   providers, test_data, p_idx, model, at>>
    /\ UNCHANGED vars

\* the format loop: the call raises, the except block appends an error entry
CountTokensRaises ==
    /\ at = "format"
    /\ f_idx <= Len(test_data)
    /\ CallRaises
    /\ results' = Append(results,
                         Entry(ErrorKeys, providers[p_idx].name, model,
                               test_data[f_idx].k))
    /\ f_idx' = f_idx + 1
    /\ UNCHANGED <<loaded_formats, dataset_size, json_strategy, detailed, models,
                   providers, test_data, p_idx, model, at>>
    /\ UNCHANGED vars

\* the format loop is over for the current provider
ProviderDone ==
    /\ at = "format"
    /\ f_idx > Len(test_data)
    /\ p_idx' = p_idx + 1
    /\ at' = "provider"
    /\ UNCHANGED <<loaded_formats, dataset_size, json_strategy, detailed, models,
                   providers, test_data, model, f_idx, results>>
    /\ UNCHANGED vars

\* the provider loop is over: return results
ReturnResults ==
    /\ at = "provider"
    /\ p_idx > Len(providers)
    /\ at' = "returned"
    /\ UNCHANGED <<loaded_formats, dataset_size, json_strategy, detailed, models,
                   providers, test_data, p_idx, model, f_idx, results>>
    /\ UNCHANGED vars

CompareNext ==
    \/ GenerateTestData
    \/ NextProvider
    \/ CountTokensReturns
    \/ CountTokensRaises
    \/ ProviderDone
    \/ ReturnResults

CompareSpec == CompareInit /\ [][CompareNext]_cvars

----------------------------------------------------------------------------
(* The decoder as a function of its argument, to compare the results of
   different calls. A call that raises has no result: raised is TRUE. *)

Raised == [raised |-> TRUE, result |-> <<>>, i |-> 0]

RECURSIVE _parse_lines(_, _), ParseLoop(_, _, _, _)

\* the while loop of _parse_lines from cursor i on, with the mapping built so far
ParseLoop(ls, i, current_indent, result) ==
    IF i >= Len(ls)
    THEN [raised |-> FALSE, result |-> result, i |-> i]
    ELSE LET line == ls[i + 1]
             stripped == Strip(line)
             indent == IndentOf(line)
         IN  IF stripped = <<>>
             THEN ParseLoop(ls, i + 1, current_indent, result)
             ELSE IF indent < current_indent
             THEN [raised |-> FALSE, result |-> result, i |-> i]
             ELSE IF indent > current_indent
             THEN ParseLoop(ls, i + 1, current_indent, result)
             ELSE IF Contains(stripped, COLON_SPACE)
             THEN LET kv == SplitOnce(stripped, COLON_SPACE)
                      parsed == _parse_value(kv[2])
                  IN  IF parsed.t = "raise"
                      THEN Raised
                      ELSE ParseLoop(ls, i + 1, current_indent,
                                     SetItem(result, kv[1], parsed))
             ELSE IF EndsWith(stripped, COLON)
             THEN LET key == SubSeq(stripped, 1, Len(stripped) - 1)
                      nested == _parse_lines(ls, i + 1)
                  IN  IF nested.raised
                      THEN Raised
                      ELSE ParseLoop(ls, nested.i, current_indent,
                                     SetItem(result, key, ObjectV(nested.result)))
             ELSE ParseLoop(ls, i + 1, current_indent, result)

\* _parse_lines(lines, start_idx): the pair (result, i) it returns
_parse_lines(ls, start_idx) ==
    ParseLoop(ls, start_idx, EnterParseLines(ls, start_idx).current_indent, <<>>)

\* the for loop of toon_to_dict over the first n chunks
RECURSIVE CollectRecords(_, _)
CollectRecords(chunks, n) ==
    IF n = 0
    THEN [raised |-> FALSE, records |-> <<>>]
    ELSE LET before == CollectRecords(chunks, n - 1)
             parsed == _parse_lines(Split(Strip(chunks[n]), <<NL>>), 0)
         IN  IF before.raised \/ parsed.raised
             THEN [raised |-> TRUE, records |-> <<>>]
             ELSE [raised |-> FALSE,
                   records |-> IF parsed.result # <<>>
                               THEN Append(before.records, parsed.result)
                               ELSE before.records]

\* toon_to_dict(toon_str)
toon_to_dict(text) ==
    LET chunks == Split(Strip(text), SEPARATOR)
    IN  CollectRecords(chunks, Len(chunks))

\* the run of toon_to_dict on toon_str is over
Returns == pc \in {"done", "raised"}

\* the run has ended as the function says
SameAsFunction ==
    Returns =>
        LET r == toon_to_dict(toon_str)
        IN  /\ r.raised = (pc = "raised")
            /\ pc = "done" => r.records = records

----------------------------------------------------------------------------
(* Vocabulary of the properties *)

Done == pc = "done"
RoundTrip == source = "data" /\ Done

\* all values of a mapping, nested ones included
RECURSIVE ValuesIn(_)
ValuesIn(m) ==
    UNION {{m[j].v} \cup (IF m[j].v.t = "obj" THEN ValuesIn(m[j].v.v) ELSE {}) :
           j \in 1..Len(m)}

AllValues(d) == UNION {ValuesIn(d[r]) : r \in 1..Len(d)}

\* a String that type inference and line splitting leave alone: it does not
\* read as a List, a Boolean or an Integer, has no surrounding whitespace, no
\* line break and no ": "
PlainText(s) ==
    /\ ~Contains(s, COLON_SPACE)
    /\ ~Contains(s, <<NL>>)
    /\ (s = <<>> \/ (~IsSpace(s[1]) /\ ~IsSpace(s[Len(s)])))
    /\ ~(s # <<>> /\ \A j \in 1..Len(s) : s[j] \in DecimalDigits \cup {SUP2})
    /\ Lower(s) \notin {TRUE_TEXT, FALSE_TEXT}
    /\ ~(s # <<>> /\ s[1] = "[" /\ s[Len(s)] = "]")

\* a List element that survives the split on ", "
PlainElement(e) ==
    /\ e.t = "str"
    /\ e.v # <<>>
    /\ ~IsSpace(e.v[1]) /\ ~IsSpace(e.v[Len(e.v)])
    /\ ~Contains(e.v, COMMA_SPACE)
    /\ ~Contains(e.v, <<NL>>)

UnambiguousScalar(value) ==
    CASE value.t = "str" -> PlainText(value.v)
      [] value.t = "int" -> value.v >= 0
      [] value.t = "bool" -> TRUE
      [] value.t = "list" -> \A j \in 1..Len(value.v) : PlainElement(value.v[j])
      [] OTHER -> FALSE

NonEmptyRecords(d) == \A r \in 1..Len(d) : d[r] # <<>>

ScalarDataset(d) ==
    /\ NonEmptyRecords(d)
    /\ \A value \in AllValues(d) : UnambiguousScalar(value)

----------------------------------------------------------------------------
(* C1 *)

\* C1: a dataset of non-empty records whose fields are unambiguous String,
\* Integer, Boolean or List values decodes, after encoding, to the same
\* records with the same fields in the same order.
C1_ScalarRoundTrip == (RoundTrip /\ ScalarDataset(data)) => records = data

----------------------------------------------------------------------------
(* C2 *)

HoldsObject(record) == \E value \in ValuesIn(record) : value.t = "obj"

UnambiguousLeaves(record) ==
    \A value \in ValuesIn(record) : value.t = "obj" \/ UnambiguousScalar(value)

\* C2: a record that holds Object values, at any depth and position, with
\* unambiguous scalar leaves, decodes after encoding to exactly that record.
C2_NestedRoundTrip ==
    (RoundTrip /\ Len(data) = 1 /\ HoldsObject(data[1])
       /\ UnambiguousLeaves(data[1])) => records = data

----------------------------------------------------------------------------
(* C3 *)

Encoded == source = "data" /\ pc # "encode"

\* the positions at which the separator occurs in a text
SeparatorPositions(text) == {j \in 1..Len(text) : OccursAt(text, SEPARATOR, j)}

\* where the separator after the block of record r has to start
RECURSIVE BlockEnd(_, _)
BlockEnd(d, r) ==
    IF r = 0 THEN 0
    ELSE (IF r = 1 THEN 0 ELSE BlockEnd(d, r - 1) + Len(SEPARATOR))
         + Len(RecordBlock(d[r]))

SeparatorExact(d, text) ==
    /\ SeparatorPositions(text) = {BlockEnd(d, r) + 1 : r \in 1..(Len(d) - 1)}
    /\ Cardinality(SeparatorPositions(text)) = Len(d) - 1
    /\ ~StartsWith(text, SEPARATOR)
    /\ ~EndsWith(text, SEPARATOR)

SingleLineValues(d) ==
    \A value \in AllValues(d) : value.t = "str" => ~Contains(value.v, <<NL>>)

\* C3 as claimed: the text of n >= 1 records holds the separator exactly n-1
\* times, once between each two consecutive blocks, and neither starts nor
\* ends with it.
C3_SeparatorExactness ==
    (Encoded /\ Len(data) >= 1) => SeparatorExact(data, toon_str)

\* C3 as amended: the same, for n >= 1 non-empty records whose values hold no
\* line break.
C3_SeparatorExactnessNonEmpty ==
    (Encoded /\ Len(data) >= 1 /\ NonEmptyRecords(data) /\ SingleLineValues(data))
        => SeparatorExact(data, toon_str)

C3_Witness ==
    /\ Encoded
    /\ Len(data) = 2
    /\ NonEmptyRecords(data)
    /\ SeparatorPositions(toon_str) = {Len(RecordBlock(data[1])) + 1}

----------------------------------------------------------------------------
(* C4 *)

\* the keys of a dataset in the order of a depth-first walk
RECURSIVE FlattenKeys(_)
FlattenKeys(m) ==
    IF m = <<>> THEN <<>>
    ELSE <<Head(m).k>>
         \o (IF Head(m).v.t = "obj" THEN FlattenKeys(Head(m).v.v) ELSE <<>>)
         \o FlattenKeys(Tail(m))

RECURSIVE DatasetKeys(_)
DatasetKeys(d) ==
    IF d = <<>> THEN <<>> ELSE FlattenKeys(Head(d)) \o DatasetKeys(Tail(d))

\* the text before the first colon of every line that has one, top to bottom
RECURSIVE KeysOfLines(_)
KeysOfLines(ls) ==
    IF ls = <<>> THEN <<>>
    ELSE (IF Contains(Head(ls), COLON)
          THEN <<SubSeq(LStrip(Head(ls)), 1,
                        FindFrom(LStrip(Head(ls)), COLON, 1) - 1)>>
          ELSE <<>>)
         \o KeysOfLines(Tail(ls))

EmittedKeys(text) == KeysOfLines(Split(text, <<NL>>))

IsPrefix(s, t) == Len(s) <= Len(t) /\ SubSeq(t, 1, Len(s)) = s

\* a step of the decoder never reorders what it has built: every mapping
\* under construction only grows at its end while its cursor moves forward,
\* and the result list only grows at its end while the chunk loop moves on
DecoderKeepsOrder ==
    /\ \A p \in 1..Len(stack) :
          p <= Len(stack') =>
              /\ IsPrefix(KeysOf(stack[p].result), KeysOf(stack'[p].result))
              /\ stack'[p].i >= stack[p].i
    /\ IsPrefix(records, records')
    /\ ri' >= ri
    /\ (records' # records =>
          /\ Len(stack) = 1
          /\ records' = Append(records, stack[1].result)
          /\ ri' = ri + 1)

\* C4: the encoder emits records and field lines in the order of the data;
\* the decoder builds records in chunk order and every mapping in the order
\* of the lines.
C4_OrderPreserved ==
    /\ [](Encoded => EmittedKeys(toon_str) = DatasetKeys(data))
    /\ [][DecoderKeepsOrder]_vars

C4_Witness ==
    /\ RoundTrip
    /\ Len(records) = 2
    /\ KeysOf(records[1]) = <<<<"b">>, <<"a">>>>
    /\ KeysOf(records[2]) = <<<<"a">>>>
    /\ records = data

----------------------------------------------------------------------------
(* C5, C6: type inference of the token of a "key: value" line *)

\* the decoder is about to parse a "key: value" line
AtKeyValueLine == AtReference /\ Contains(Strip(CurLine), COLON_SPACE)

CurKey == SplitOnce(Strip(CurLine), COLON_SPACE)[1]

\* the raw value token of the current line
CurToken == Strip(SplitOnce(Strip(CurLine), COLON_SPACE)[2])

\* the step has returned from _parse_value without an exception
Returned == pc' # "raised"

\* the value the step has stored under the key of the line
Stored == Lookup(stack'[Len(stack)].result, CurKey)

BracketWrapped(tok) == tok # <<>> /\ tok[1] = "[" /\ tok[Len(tok)] = "]"
BooleanWord(tok) == Lower(tok) \in {TRUE_TEXT, FALSE_TEXT}
AllDecimal(tok) == tok # <<>> /\ \A j \in 1..Len(tok) : tok[j] \in DecimalDigits

\* the number a text of decimal digits denotes
RECURSIVE DecimalValue(_)
DecimalValue(tok) ==
    IF tok = <<>> THEN 0
    ELSE 10 * DecimalValue(SubSeq(tok, 1, Len(tok) - 1))
         + (IF tok[Len(tok)] = ARABIC3 THEN 3
            ELSE CHOOSE n \in 0..9 : DigitChar(n) = tok[Len(tok)])

\* a token written like a negative or fractional number
SignedOrFractional(tok) ==
    /\ tok # <<>>
    /\ \A j \in 1..Len(tok) : tok[j] \in AsciiDigits \cup {"-", "."}
    /\ (tok[1] = "-" \/ \E j \in 1..Len(tok) : tok[j] = ".")

DecodesToInteger == Returned /\ Stored.t = "int"

IntegerRule ==
    AtKeyValueLine =>
        /\ DecodesToInteger <=>
              (~BracketWrapped(CurToken) /\ ~BooleanWord(CurToken)
                 /\ AllDecimal(CurToken))
        /\ DecodesToInteger => Stored.v = DecimalValue(CurToken)
        /\ CurToken = <<"0", "0", "7">> => (Returned /\ Stored = IntegerV(7))
        /\ SignedOrFractional(CurToken) => (Returned /\ Stored = StringV(CurToken))

\* C5: a token decodes to an Integer exactly when it is non-empty, neither a
\* List nor a Boolean, and made of decimal digits only; the Integer is the
\* number the digits denote (007 gives 7); -5 and 3.5 stay Strings, verbatim.
C5_DigitOnlyInteger == [][IntegerRule]_vars

C5_Witness ==
    /\ Done
    /\ source = "text"
    /\ Len(records) = 1
    /\ HasKey(records[1], <<"a">>)
    /\ Lookup(records[1], <<"a">>) = IntegerV(7)
    /\ toon_str = <<"a", ":", SP, "0", "0", "7">>

\* the elements of a bracket-wrapped token: the pieces between ", ", trimmed,
\* the empty ones dropped, each one a String
RECURSIVE ElementsOf(_)
ElementsOf(inner) ==
    LET cut == FindFrom(inner, COMMA_SPACE, 1)
        piece == Strip(IF cut = 0 THEN inner ELSE SubSeq(inner, 1, cut - 1))
        here == IF piece = <<>> THEN <<>> ELSE <<StringV(piece)>>
    IN  IF cut = 0 THEN here
        ELSE here \o ElementsOf(SubSeq(inner, cut + 2, Len(inner)))

\* the value of a token by the first matching rule: List, Boolean, Integer,
\* String
Classified(tok) ==
    IF BracketWrapped(tok) /\ Len(tok) >= 2
    THEN ListV(ElementsOf(SubSeq(tok, 2, Len(tok) - 1)))
    ELSE IF BooleanWord(tok) THEN BooleanV(Lower(tok) = TRUE_TEXT)
    ELSE IF AllDecimal(tok) THEN IntegerV(DecimalValue(tok))
    ELSE StringV(tok)

\* C6: _parse_value classifies every token by the first matching rule in the
\* order List, Boolean, Integer, String; the elements of a List stay Strings;
\* TRUE, True and true all give the Boolean true.
C6_InferencePriority ==
    [][AtKeyValueLine => (Returned /\ Stored = Classified(CurToken))]_vars

----------------------------------------------------------------------------
(* C7 *)

\* the fields of a dataset, nested ones included
RECURSIVE FieldsIn(_)
FieldsIn(m) ==
    UNION {{m[j]} \cup (IF m[j].v.t = "obj" THEN FieldsIn(m[j].v.v) ELSE {}) :
           j \in 1..Len(m)}

AllFields(d) == UNION {FieldsIn(d[r]) : r \in 1..Len(d)}

\* the fields that hold a List of plain String elements
ListFields(d) ==
    {f \in AllFields(d) :
        f.v.t = "list" /\ \A j \in 1..Len(f.v.v) : PlainElement(f.v.v[j])}

RECURSIVE CommaSeparated(_)
CommaSeparated(es) ==
    IF es = <<>> THEN <<>>
    ELSE IF Len(es) = 1 THEN es[1].v
    ELSE es[1].v \o <<",", SP>> \o CommaSeparated(Tail(es))

\* the line "k: [e1, e2, ..., en]"
ListLine(f) == f.k \o <<":", SP, "[">> \o CommaSeparated(f.v.v) \o <<"]">>

LinesOf(text) == {Split(text, <<NL>>)[j] : j \in 1..Len(Split(text, <<NL>>))}

ListEncoded ==
    Encoded => \A f \in ListFields(data) : \E l \in LinesOf(toon_str) : LStrip(l) = ListLine(f)

ListDecoded ==
    (source = "data" /\ AtKeyValueLine) =>
        \A f \in ListFields(data) :
            Strip(CurLine) = ListLine(f) => (Returned /\ CurKey = f.k /\ Stored = f.v)

\* C7: a field holding a List of plain String elements is encoded as the one
\* line "k: [e1, ..., en]", and decoding that line stores under k the List of
\* the same elements in the same order; the empty List gives "k: []" and back.
C7_ListRoundTrip == []ListEncoded /\ [][ListDecoded]_vars

C7_Witness ==
    /\ RoundTrip
    /\ Len(data) = 1
    /\ data[1] = <<[k |-> <<"a">>, v |-> ListV(<<StringV(TextX), StringV(Text12)>>)],
                   [k |-> <<"b">>, v |-> ListV(<<>>)]>>
    /\ toon_str = <<"a", ":", SP, "[", "x", ",", SP, "1", "2", "]", NL,
                    "b", ":", SP, "[", "]">>
    /\ records = data

----------------------------------------------------------------------------
(* C8 *)

MaxIndent == 2

\* text is the natural decimal form of n: digits only, no leading zero
DecimalForm(text, n) ==
    /\ AllDecimal(text)
    /\ DecimalValue(text) = n
    /\ (Len(text) = 1 \/ text[1] # "0")

\* text is the rendering C8 describes for a value that is no Object
RendersAs(value, text) ==
    CASE value.t = "list" -> text = <<"[">> \o CommaSeparated(value.v) \o <<"]">>
      [] value.t = "bool" -> text = (IF value.v THEN TRUE_TEXT ELSE FALSE_TEXT)
      [] value.t = "int" -> DecimalForm(text, value.v)
      [] value.t = "str" -> text = value.v

\* C8: a List is rendered as its elements joined by ", " inside brackets, a
\* Boolean as lowercase true or false, an Integer or a String as its natural
\* text, whatever the indent level.
C8_ScalarFormatting ==
    Encoded =>
        \A value \in AllValues(data) :
            value.t # "obj" =>
                \A indent \in 0..MaxIndent :
                    RendersAs(value, _format_value(value, indent))

C8_Witness ==
    /\ Encoded
    /\ Len(data) = 1
    /\ data[1] = <<[k |-> <<"a">>, v |-> BooleanV(TRUE)],
                   [k |-> <<"b">>, v |-> ListV(<<StringV(TRUE_TEXT), StringV(TextX)>>)]>>
    /\ toon_str = <<"a", ":", SP, "t", "r", "u", "e", NL,
                    "b", ":", SP, "[", "t", "r", "u", "e", ",", SP, "x", "]">>

----------------------------------------------------------------------------
(* C9 *)

\* the current line is non-blank and deeper than the block's reference indent
AtDeeperLine ==
    /\ InLoop
    /\ ~IsBlank(CurLine)
    /\ IndentOf(CurLine) > Top.current_indent

\* the step only moves the cursor of the running invocation by one
OnlyAdvances ==
    /\ Len(stack') = Len(stack)
    /\ \A p \in 1..(Len(stack) - 1) : stack'[p] = stack[p]
    /\ stack'[Len(stack)] = [Top EXCEPT !.i = Top.i + 1]
    /\ pc' = "parse"
    /\ records' = records
    /\ lines' = lines

\* C9: a non-blank line deeper than the reference indent is skipped: nothing
\* is stored, nothing is raised, the cursor advances by one and the same
\* invocation goes on with the next line.
C9_DeeperLineSkipped == [][AtDeeperLine => OnlyAdvances]_vars

C9_Witness ==
    /\ Done
    /\ toon_str = LineA1 \o <<NL>> \o Line4A7 \o <<NL>> \o LineB
    /\ records = <<<<[k |-> <<"a">>, v |-> IntegerV(1)],
                     [k |-> <<"b">>, v |-> ObjectV(<<>>)]>>>>

----------------------------------------------------------------------------
(* C10 *)

\* C10: toon_to_dict never raises, whatever the input text.
C10_NeverRaises == pc # "raised"

----------------------------------------------------------------------------
(* C11 *)

\* the step returns the record of a chunk to the for loop of toon_to_dict
ChunkParsed == pc = "parse" /\ Len(stack) = 1 /\ stack' = <<>>

\* the result list holds no empty record and at most one record per chunk
\* already taken by the for loop
NoEmptyRecord ==
    /\ \A r \in 1..Len(records) : records[r] # <<>>
    /\ pc \in {"chunk", "done"} => Len(records) <= ri - 1
    /\ pc = "parse" => Len(records) <= ri - 1 /\ ri <= Len(record_strs)
    /\ Done => ri = Len(record_strs) + 1

\* the result list grows only when a chunk has been parsed, by the mapping of
\* that chunk, at its end, and only when the mapping is not empty
OneRecordPerChunk ==
    /\ ChunkParsed /\ Top.result # <<>> => records' = Append(records, Top.result)
    /\ ChunkParsed /\ Top.result = <<>> => records' = records
    /\ ChunkParsed => ri' = ri + 1
    /\ ~ChunkParsed => records' = records /\ (pc # "decode" => ri' = ri)

\* C11: the Dataset returned by toon_to_dict never contains an empty record;
\* it holds, in chunk order, exactly one record for each chunk whose parse
\* yields a non-empty mapping, so its length is at most the number of chunks.
C11_EmptyChunksDropped == []NoEmptyRecord /\ [][OneRecordPerChunk]_vars

C11_Witness ==
    /\ Done
    /\ toon_str = LineA1 \o SEPARATOR \o LineOther \o SEPARATOR \o LineB
    /\ Len(record_strs) = 3
    /\ records = <<<<[k |-> <<"a">>, v |-> IntegerV(1)]>>,
                   <<[k |-> <<"b">>, v |-> ObjectV(<<>>)]>>>>

----------------------------------------------------------------------------
(* C12 *)

\* the first k records of d, and the others
FirstRecords(d, k) == SubSeq(d, 1, k)
OtherRecords(d, k) == SubSeq(d, k + 1, Len(d))

\* data = d1 ++ d2 with k records in d1: the text of data is the text of d1,
\* the separator, the text of d2
EncodedApart(k) ==
    toon_str = dict_to_toon(FirstRecords(data, k)) \o SEPARATOR
               \o dict_to_toon(OtherRecords(data, k))

\* decoding the text of data gives the records decoded from the text of d1
\* followed by those decoded from the text of d2
DecodedApart(k) ==
    LET first == toon_to_dict(dict_to_toon(FirstRecords(data, k)))
        others == toon_to_dict(dict_to_toon(OtherRecords(data, k)))
    IN  /\ ~first.raised
        /\ ~others.raised
        /\ records = first.records \o others.records

Independent(k) ==
    /\ Encoded => EncodedApart(k)
    /\ RoundTrip => DecodedApart(k)

\* C12 as stated: for all Datasets d1 and d2 of non-empty records, the text of
\* d1 ++ d2 is the text of d1, the separator and the text of d2, and decoding
\* it gives the decoding of d1's text followed by the decoding of d2's text.
C12_RecordIndependence ==
    (source = "data" /\ NonEmptyRecords(data)) =>
        \A k \in 0..Len(data) : Independent(k)

\* C12, amended: the same for Datasets d1 and d2 that hold at least one
\* record each.
C12_RecordIndependenceNonEmpty ==
    (source = "data" /\ NonEmptyRecords(data)) =>
        \A k \in 1..(Len(data) - 1) : Independent(k)

C12_Witness ==
    /\ RoundTrip
    /\ data = <<<<[k |-> <<"a">>, v |-> IntegerV(7)]>>,
                <<[k |-> <<"b">>, v |-> ObjectV(<<>>)],
                  [k |-> <<"a">>, v |-> IntegerV(7)]>>>>
    /\ records = <<<<[k |-> <<"a">>, v |-> IntegerV(7)]>>,
                   <<[k |-> <<"b">>, v |-> ObjectV(<<[k |-> <<"a">>, v |-> IntegerV(7)]>>)]>>>>
    /\ DecodedApart(1)

----------------------------------------------------------------------------
(* C13 *)

OnlyWhitespace(text) == \A j \in 1..Len(text) : IsSpace(text[j])

\* C13: dict_to_toon([]) returns the empty text, and toon_to_dict of the empty
\* text, and of any text made only of whitespace, returns the empty Dataset.
C13_EmptyDataset ==
    /\ (Encoded /\ data = <<>>) => toon_str = <<>>
    /\ (Returns /\ OnlyWhitespace(toon_str)) => (Done /\ records = <<>>)

C13_Witness ==
    /\ Done
    /\ toon_str = <<SP, SP, NL, SP>>
    /\ records = <<>>
    /\ dict_to_toon(<<>>) = <<>>

----------------------------------------------------------------------------
(* C14 *)

\* the line the invocation at depth p of the stack is at
LineAt(p) == lines[stack[p].i + 1]

\* the step stores a field in the mapping of the invocation at depth p; both
\* for a key/value line and for the return of a nested block the field comes
\* from the line that invocation is at
StoresFieldAt(p) ==
    /\ pc = "parse"
    /\ p <= Len(stack')
    /\ stack'[p].result # stack[p].result

\* the invocation at depth p > 1 parses the block of the header line its
\* caller is at: the line follows the header and is deeper than the header
DeeperThanHeader(p) ==
    /\ stack[p].i > stack[p - 1].i
    /\ IndentOf(LineAt(p)) > IndentOf(LineAt(p - 1))

\* C14: every field stored in the Object created for a key-only line comes
\* from a line that follows the header and is indented strictly deeper than
\* the header; a line at the header's indentation or shallower is never
\* absorbed into the nested Object.
C14_NestedHoldsDeeper ==
    [][\A p \in 2..Len(stack) : StoresFieldAt(p) => DeeperThanHeader(p)]_vars

----------------------------------------------------------------------------
(* C15 *)

\* the running invocation is at a non-blank line shallower than its reference indent
AtShallowerLine ==
    /\ InLoop
    /\ ~IsBlank(CurLine)
    /\ IndentOf(CurLine) < Top.current_indent

\* the running invocation returns its mapping as it is and the index of the
\* line it is at; its caller stores the mapping under the header's key and
\* goes on at that same line
ReturnsTheLine ==
    /\ Len(stack) > 1
    /\ Len(stack') = Len(stack) - 1
    /\ \A p \in 1..(Len(stack) - 2) : stack'[p] = stack[p]
    /\ LET caller == stack[Len(stack) - 1]
       IN  stack'[Len(stack) - 1] =
               [caller EXCEPT !.i = Top.i,
                              !.result = SetItem(caller.result, caller.key,
                                                 ObjectV(Top.result))]
    /\ pc' = "parse"
    /\ records' = records
    /\ lines' = lines

\* the ancestors of the running invocation whose reference indent is the
\* indentation of the current line
MatchingAncestors ==
    {p \in 1..(Len(stack) - 1) : stack[p].current_indent = IndentOf(CurLine)}

\* the line goes back to the nearest matching ancestor: every invocation
\* between that ancestor and the running one has a greater reference indent,
\* and so returns the line in its turn
ReachesNearestMatch ==
    MatchingAncestors # {} =>
        LET nearest == CHOOSE q \in MatchingAncestors :
                           \A p \in MatchingAncestors : p <= q
        IN  \A p \in (nearest + 1)..(Len(stack) - 1) :
                stack[p].current_indent > IndentOf(CurLine)

\* the callers wait at their header lines, each one before the block it called
CursorsInOrder ==
    \A p \in 1..(Len(stack) - 1) : stack[p].i < stack[p + 1].i

\* a step that stores a field for the line an invocation is at moves that
\* invocation past the line, and no cursor ever moves back
LineUsedOnce ==
    pc = "parse" =>
        \A p \in 1..Len(stack) :
            p <= Len(stack') =>
                /\ stack'[p].i >= stack[p].i
                /\ stack'[p].result # stack[p].result => stack'[p].i > stack[p].i

\* the return step itself, and the use of every line at most once
ReturnStepRule ==
    /\ []CursorsInOrder
    /\ [][(AtShallowerLine => ReturnsTheLine) /\ LineUsedOnce]_vars

\* C15: an invocation that meets a non-blank line shallower than its reference
\* indent returns the index of that line and stores nothing for it; the caller
\* resumes at that line, so the line is parsed by the nearest ancestor whose
\* reference indent it matches, and every line contributes a field to at most
\* one mapping.
C15_ReturnToAncestor ==
    /\ [](AtShallowerLine => ReachesNearestMatch)
    /\ ReturnStepRule

----------------------------------------------------------------------------
(* C16 *)

\* the lines of a chunk without the blank ones
RECURSIVE WithoutBlankLines(_)
WithoutBlankLines(ls) ==
    IF ls = <<>> THEN <<>>
    ELSE IF IsBlank(Head(ls)) THEN WithoutBlankLines(Tail(ls))
    ELSE <<Head(ls)>> \o WithoutBlankLines(Tail(ls))

\* the top-level invocation is about to return the record of the chunk
ChunkEnd == pc = "parse" /\ Len(stack) = 1 /\ LoopExit

\* C16: a blank line inside a chunk has no effect: decoding the chunk gives
\* the same record as decoding it with its blank lines removed, wherever the
\* blank line stands, also directly after a key-only header line.
C16_BlankLinesIgnored ==
    ChunkEnd =>
        LET without == _parse_lines(WithoutBlankLines(lines), 0)
        IN  /\ ~without.raised
            /\ without.result = Top.result

----------------------------------------------------------------------------
(* C17 *)

\* the chunks of the input text as it was given, and the lines of the chunk
\* the for loop is at
InputChunks == Split(toon_str, SEPARATOR)
InputLines == Split(InputChunks[ri], <<NL>>)

\* the input text has the chunks the for loop runs over, and the current one
\* has a non-blank line
InChunk ==
    /\ pc = "parse"
    /\ Len(InputChunks) = Len(record_strs)
    /\ \E j \in 1..Len(InputLines) : ~IsBlank(InputLines[j])

FirstNonBlank(ls) == ls[CHOOSE j \in 1..Len(ls) :
                           ~IsBlank(ls[j]) /\ \A h \in 1..(j - 1) : IsBlank(ls[h])]

\* every line of ls starts with k spaces
IndentedBy(ls, k) == \A j \in 1..Len(ls) : ~IsBlank(ls[j]) /\ IndentOf(ls[j]) >= k

Dedent(ls, k) == [j \in 1..Len(ls) |-> SubSeq(ls[j], k + 1, Len(ls[j]))]

\* the record of a chunk indented as a whole is the record of the chunk
\* without that indentation
SameAsDedented ==
    LET k == IndentOf(InputLines[1])
    IN  (ChunkEnd /\ InChunk /\ k > 0 /\ IndentedBy(InputLines, k)) =>
            LET dedented == _parse_lines(Dedent(InputLines, k), 0)
            IN  ~dedented.raised /\ dedented.result = Top.result

\* C17: the reference indent of the top-level invocation is the leading-space
\* count that the chunk's first non-blank line has in the input text, so a
\* chunk whose lines are all indented by the same k > 0 spaces decodes to the
\* same record as the chunk without that indentation.
C17_TopLevelReference ==
    /\ InChunk => stack[1].current_indent = IndentOf(FirstNonBlank(InputLines))
    /\ SameAsDedented

----------------------------------------------------------------------------
(* C18 *)

\* the lines of the block written for a record; the empty block has none
BlockLines(record) ==
    IF RecordBlock(record) = <<>> THEN <<>> ELSE Split(RecordBlock(record), <<NL>>)

\* the number of fields of a mapping, counted over all nesting levels
RECURSIVE FieldCount(_)
FieldCount(m) ==
    IF m = <<>> THEN 0
    ELSE 1 + (IF Head(m).v.t = "obj" THEN FieldCount(Head(m).v.v) ELSE 0)
           + FieldCount(Tail(m))

\* the line of a field with key k and value v at nesting depth d
FieldLine(k, v, d) ==
    Spaces(d) \o k \o (IF v.t = "obj" THEN COLON
                       ELSE COLON_SPACE \o _format_value(v, 0))

\* the lines of the fields of a mapping whose own fields lie at depth d
RECURSIVE ShapedLines(_, _)
ShapedLines(m, d) ==
    UNION {{FieldLine(m[j].k, m[j].v, d)}
           \cup (IF m[j].v.t = "obj" THEN ShapedLines(m[j].v.v, d + 1) ELSE {}) :
           j \in 1..Len(m)}

\* C18: the block of a record has exactly one line per field, counted over
\* all nesting levels, and every line is indent + "k: " + formatted value, or
\* indent + "k:" for an Object-valued field: no blank line and no line of any
\* other shape, whatever the number of fields of each Object. Stated for
\* records whose String values hold no line break.
C18_BlockShape ==
    (Encoded /\ SingleLineValues(data)) =>
        \A r \in 1..Len(data) :
            LET block == BlockLines(data[r])
            IN  /\ Len(block) = FieldCount(data[r])
                /\ \A j \in 1..Len(block) : block[j] \in ShapedLines(data[r], 0)

----------------------------------------------------------------------------
(* C19 *)

\* the fields of a mapping in the order they are written, each with its
\* nesting depth; the fields of the mapping itself lie at depth d
RECURSIVE FieldSeq(_, _)
FieldSeq(m, d) ==
    IF m = <<>> THEN <<>>
    ELSE <<[k |-> Head(m).k, d |-> d]>>
         \o (IF Head(m).v.t = "obj" THEN FieldSeq(Head(m).v.v, d + 1) ELSE <<>>)
         \o FieldSeq(Tail(m), d)

\* the line starts with exactly 2 * d spaces, followed by the key and a colon
OnItsLine(line, f) ==
    /\ IndentOf(line) = 2 * f.d
    /\ StartsWith(LStrip(line), f.k \o COLON)

\* every field has its line, in the order of the fields
RECURSIVE FieldsOnLines(_, _)
FieldsOnLines(fields, ls) ==
    IF fields = <<>> THEN TRUE
    ELSE IF ls = <<>> THEN FALSE
    ELSE IF OnItsLine(Head(ls), Head(fields))
         THEN FieldsOnLines(Tail(fields), Tail(ls))
         ELSE FieldsOnLines(fields, Tail(ls))

\* C19: in the text written by dict_to_toon the line of a field at nesting
\* depth d (0 for a top-level field, d + 1 inside an Object that is a field at
\* depth d) starts with exactly 2 * d spaces, for header lines of Objects as
\* well as for key/value lines.
C19_IndentPerLevel ==
    Encoded =>
        \A r \in 1..Len(data) :
            FieldsOnLines(FieldSeq(data[r], 0), BlockLines(data[r]))

C19_Witness ==
    /\ Encoded
    /\ data = <<<<[k |-> <<"a">>,
                   v |-> ObjectV(<<[k |-> <<"b">>,
                                    v |-> ObjectV(<<[k |-> <<"a">>, v |-> IntegerV(7)]>>)],
                                   [k |-> <<"a">>, v |-> IntegerV(7)]>>)]>>>>
    /\ toon_str = <<"a", ":">> \o <<NL>> \o Line2B \o <<NL>> \o Line4A7
                  \o <<NL>> \o <<SP, SP, "a", ":", SP, "7">>

----------------------------------------------------------------------------
(* C20 *)

\* the position of the first ": " in a text that holds one
FirstColonSpace(s) ==
    CHOOSE n \in 1..Len(s) :
        /\ OccursAt(s, COLON_SPACE, n)
        /\ \A h \in 1..(n - 1) : ~OccursAt(s, COLON_SPACE, h)

\* the text of the current line before its first ": ", and all that follows it
KeyBefore == SubSeq(Strip(CurLine), 1, FirstColonSpace(Strip(CurLine)) - 1)
RawAfter ==
    SubSeq(Strip(CurLine), FirstColonSpace(Strip(CurLine)) + Len(COLON_SPACE),
           Len(Strip(CurLine)))

\* the step stores the value read from the raw text under the key, in the
\* running invocation, and moves to the next line; no nested block is opened
StoresKeyValue ==
    /\ Len(stack') = Len(stack)
    /\ \A p \in 1..(Len(stack) - 1) : stack'[p] = stack[p]
    /\ stack'[Len(stack)].i = Top.i + 1
    /\ HasKey(stack'[Len(stack)].result, KeyBefore)
    /\ \A j \in 1..Len(Top.result) :
           Top.result[j].k # KeyBefore =>
               \E h \in 1..Len(stack'[Len(stack)].result) :
                   stack'[Len(stack)].result[h] = Top.result[j]
    /\ Lookup(stack'[Len(stack)].result, KeyBefore) = _parse_value(RawAfter)

\* a raw value that holds a colon and is not in brackets is kept as it is
KeptVerbatim ==
    (Contains(RawAfter, COLON) /\ ~BracketWrapped(Strip(RawAfter))) =>
        Lookup(stack'[Len(stack)].result, KeyBefore) = StringV(Strip(RawAfter))

\* C20: a line at the reference indent whose stripped form contains ": " is
\* parsed as key/value, also when it ends with ":"; the key is the text before
\* the first ": " and the raw value is everything after it, so a String value
\* that contains ": " is decoded verbatim.
C20_FirstColonSpace ==
    [][(AtKeyValueLine /\ Returned) => (StoresKeyValue /\ KeptVerbatim)]_vars

C20_Witness ==
    /\ Done
    /\ toon_str = <<"a", ":", SP, "b", ":", SP, "x", ":">>
    /\ records = <<<<[k |-> <<"a">>, v |-> StringV(<<"b", ":", SP, "x", ":">>)]>>>>

----------------------------------------------------------------------------
(* C21 *)

\* the cursor of every invocation lies between its start index and the
\* number of lines, and its reference indent is the one computed at entry
CursorInRange ==
    pc = "parse" =>
        \A p \in 1..Len(stack) :
            /\ stack[p].start_idx <= stack[p].i
            /\ stack[p].i <= Len(lines)
            /\ stack[p].current_indent =
                   EnterParseLines(lines, stack[p].start_idx).current_indent

\* no step changes the reference indent or the start index of an invocation
\* that stays on the stack
ReferenceFixed ==
    pc = "parse" =>
        \A p \in 1..Len(stack) :
            p <= Len(stack') =>
                /\ stack'[p].current_indent = stack[p].current_indent
                /\ stack'[p].start_idx = stack[p].start_idx

\* a loop iteration of the running invocation: it stops the loop (the
\* invocation returns, or the call raises), or the cursor goes up by one, or a
\* nested invocation starts at the next line
IterationAdvances ==
    InLoop =>
        \/ Len(stack') = Len(stack) - 1
        \/ pc' = "raised"
        \/ Len(stack') = Len(stack) /\ stack'[Len(stack)].i = Top.i + 1
        \/ /\ Len(stack') = Len(stack) + 1
           /\ stack'[Len(stack)].i = Top.i
           /\ stack'[Len(stack) + 1].start_idx = Top.i + 1

\* a nested invocation hands back an index beyond the header line of its caller
NestedReturnsBeyond ==
    (pc = "parse" /\ Len(stack) > 1 /\ Len(stack') = Len(stack) - 1) =>
        /\ stack'[Len(stack) - 1].i = Top.i
        /\ stack'[Len(stack) - 1].i >= stack[Len(stack) - 1].i + 1

\* what is left to do, most significant first: the stage of the run, the
\* chunks not yet parsed, the call not yet made for the current chunk, the
\* lines not yet passed and the invocations not yet returned
Rank ==
    << CASE pc = "encode" -> 3
         [] pc = "decode" -> 2
         [] pc \in {"chunk", "parse"} -> 1
         [] OTHER -> 0,
       IF pc \in {"chunk", "parse"} THEN Len(record_strs) + 1 - ri ELSE 0,
       IF pc = "chunk" THEN 1 ELSE 0,
       IF pc = "parse" THEN 2 * (Len(lines) - Top.i) + Len(stack) ELSE 0 >>

RECURSIVE LexLess(_, _)
LexLess(s, t) ==
    /\ s # <<>>
    /\ \/ Head(s) < Head(t)
       \/ Head(s) = Head(t) /\ LexLess(Tail(s), Tail(t))

RankIsNatural == \A j \in 1..Len(Rank) : Rank[j] \in Nat

\* C21: in every invocation of _parse_lines the reference indent is fixed at
\* entry, every loop iteration stops the loop or strictly increases the cursor
\* (by one, or to the index a nested call returns, at least i + 1), and the
\* returned index lies between start_idx and the number of lines; hence
\* toon_to_dict terminates: every step of the call lowers a rank that cannot
\* fall for ever.
C21_Terminates ==
    /\ [](CursorInRange /\ RankIsNatural)
    /\ [][/\ ReferenceFixed
          /\ IterationAdvances
          /\ NestedReturnsBeyond
          /\ LexLess(Rank', Rank)]_vars

C21_Witness ==
    /\ Done
    /\ toon_str = LineB \o <<NL>> \o Line2Ax \o <<NL>> \o LineA1
    /\ records = <<<<[k |-> <<"b">>, v |-> ObjectV(<<[k |-> <<"a">>, v |-> StringV(TextX)]>>)],
                     [k |-> <<"a">>, v |-> IntegerV(1)]>>>>

----------------------------------------------------------------------------
(* C22 *)

\* the trimmed input text holds no occurrence of the separator
NoSeparator == ~Contains(Strip(toon_str), SEPARATOR)

\* the mapping read from all the lines of the trimmed text
WholeText == _parse_lines(Split(Strip(toon_str), <<NL>>), 0)

\* the text is one chunk and the result is the record read from all of it, if
\* that record is not empty
OneRecord ==
    /\ record_strs = <<Strip(toon_str)>>
    /\ Len(records) <= 1
    /\ ~WholeText.raised
    /\ records = IF WholeText.result = <<>> THEN <<>> ELSE <<WholeText.result>>

\* the running invocation is at a line of dashes at its reference indent
AtDashLine == AtReference /\ Strip(CurLine) = Dashes

\* C22: when the trimmed input text holds no occurrence of the exact
\* separator, toon_to_dict returns at most one record, built from the whole
\* text; a line of dashes without the separator's line breaks around it does
\* not split the text and is skipped as a line of unrecognised shape.
C22_NoSeparatorOneRecord ==
    /\ []((Done /\ NoSeparator) => OneRecord)
    /\ [][AtDashLine => OnlyAdvances]_vars

C22_Witness ==
    /\ Done
    /\ toon_str = LineA1 \o <<NL, NL>> \o Dashes \o <<NL>> \o LineB
    /\ NoSeparator
    /\ records = <<<<[k |-> <<"a">>, v |-> IntegerV(1)],
                     [k |-> <<"b">>, v |-> ObjectV(<<>>)]>>>>

----------------------------------------------------------------------------
(* C23 *)

\* the field names of a mapping, and of every Object in it, are unique
RECURSIVE UniqueKeys(_)
UniqueKeys(m) ==
    /\ \A j, h \in 1..Len(m) : m[j].k = m[h].k => j = h
    /\ \A j \in 1..Len(m) : m[j].v.t = "obj" => UniqueKeys(m[j].v.v)

AllUnique ==
    /\ \A r \in 1..Len(records) : UniqueKeys(records[r])
    /\ \A p \in 1..Len(stack) : UniqueKeys(stack[p].result)

\* the key a line carries: the text before its first ": ", or before its
\* closing colon
LineKey(line) ==
    IF Contains(Strip(line), COLON_SPACE)
    THEN SubSeq(Strip(line), 1, FirstColonSpace(Strip(line)) - 1)
    ELSE SubSeq(Strip(line), 1, Len(Strip(line)) - 1)

\* the value that the invocation at depth p stores for the line it is at: the
\* value read after the first ": ", or the mapping its nested block returns
LineValue(p) ==
    IF Contains(Strip(LineAt(p)), COLON_SPACE)
    THEN _parse_value(SubSeq(Strip(LineAt(p)),
                             FirstColonSpace(Strip(LineAt(p))) + Len(COLON_SPACE),
                             Len(Strip(LineAt(p)))))
    ELSE ObjectV(stack[p + 1].result)

\* a store under a key the mapping holds replaces the value where the key
\* stands; a store under a new key adds the field at the end
StoredInPlace(p) ==
    LET old == stack[p].result
        new == stack'[p].result
        key == LineKey(LineAt(p))
    IN  IF HasKey(old, key)
        THEN /\ KeysOf(new) = KeysOf(old)
             /\ \A j \in 1..Len(old) :
                    new[j].v = IF old[j].k = key THEN LineValue(p) ELSE old[j].v
        ELSE new = Append(old, [k |-> key, v |-> LineValue(p)])

\* C23: when several lines of one block carry the same key, the mapping holds
\* the key once, with the value of the last such line at the position of the
\* first one; a mapping always has unique field names.
C23_DuplicateKeys ==
    /\ []AllUnique
    /\ [][\A p \in 1..Len(stack) : StoresFieldAt(p) => StoredInPlace(p)]_vars

C23_Witness ==
    /\ Done
    /\ toon_str = LineA1 \o <<NL>> \o LineBx \o <<NL>> \o LineAx
    /\ records = <<<<[k |-> <<"a">>, v |-> StringV(TextX)],
                     [k |-> <<"b">>, v |-> StringV(TextX)]>>>>

----------------------------------------------------------------------------
(* C24: missing formats are generated from the loaded JSON *)

Generated == at \in {"provider", "format", "returned"}
JsonLoaded == HasKey(loaded_formats, JSON)
AllThreeFormats == \A f \in {JSON, CSV, TOON} : HasKey(test_data, f)

\* a format that had an input file keeps that file's content
LoadedKept ==
    \A j \in 1..Len(loaded_formats) :
        /\ HasKey(test_data, loaded_formats[j].k)
        /\ Lookup(test_data, loaded_formats[j].k) = loaded_formats[j].v

\* a format that had no input file is generated from the loaded JSON data
LoadedData == json_to_dict(Lookup(loaded_formats, JSON))
CsvFromJson ==
    \/ HasKey(loaded_formats, CSV)
    \/ /\ ~LoadedData.raised
       /\ ~dict_to_csv(LoadedData.value).raised
       /\ HasKey(test_data, CSV)
       /\ Lookup(test_data, CSV) = dict_to_csv(LoadedData.value).value
ToonFromJson ==
    \/ HasKey(loaded_formats, TOON)
    \/ /\ ~LoadedData.raised
       /\ HasKey(test_data, TOON)
       /\ Lookup(test_data, TOON) = ToonText(dict_to_toon(LoadedData.value))

\* C24: whenever input files were loaded and data.json is one of them, the
\* generated test data has an entry for each of json, csv and toon; a format
\* with an input file keeps the file's content and a format without one is
\* generated from the loaded JSON data.
C24_MissingFromJson ==
    (Generated /\ JsonLoaded) =>
        (AllThreeFormats /\ LoadedKept /\ CsvFromJson /\ ToonFromJson)

\* the part of it that the code does: with data.json as the only input file,
\* holding a list of records that all have the keys of the first, and the
\* PRETTY strategy, the three formats are there, csv and toon from the JSON
OnlyJsonLoaded ==
    /\ JsonLoaded
    /\ Len(loaded_formats) = 1
    /\ ~LoadedData.raised
    /\ ~dict_to_csv(LoadedData.value).raised
C24_OnlyJsonLoaded ==
    (Generated /\ OnlyJsonLoaded /\ json_strategy = PRETTY) =>
        (AllThreeFormats /\ LoadedKept /\ CsvFromJson /\ ToonFromJson)

\* data.json and data.csv were loaded, data.toon was not, and the test data
\* has no toon entry
C24_NoToonGenerated ==
    /\ Generated
    /\ KeysOf(loaded_formats) = <<JSON, CSV>>
    /\ ~LoadedData.raised
    /\ KeysOf(test_data) = <<JSON, CSV>>

----------------------------------------------------------------------------
(* C25: one result per provider and format *)

ResultsReturned == at = "returned"
Raising(p, f) == test_data[f].k \in providers[p].fails
EntryAt(p, f) == results[(p - 1) * Len(test_data) + f]
IsErrorEntry(e) == {"provider", "model", "format_type", "error"} \subseteq e.keys
IsResultEntry(e) == "total_tokens" \in e.keys /\ "error" \notin e.keys

OneEntryPerPair ==
    /\ Len(results) = Len(providers) * Len(test_data)
    /\ \A p \in 1..Len(providers) : \A f \in 1..Len(test_data) :
           /\ EntryAt(p, f).provider = providers[p].name
           /\ EntryAt(p, f).format_type = test_data[f].k
           /\ IF Raising(p, f) THEN IsErrorEntry(EntryAt(p, f))
              ELSE IsResultEntry(EntryAt(p, f))

\* a call that raises adds one entry and the loop goes on with the next format
RaiseGoesOn ==
    (at = "format" /\ f_idx <= Len(test_data) /\ CallRaises) =>
        /\ Len(results') = Len(results) + 1
        /\ f_idx' = f_idx + 1
        /\ at' = "format"
        /\ p_idx' = p_idx

\* C25: run_comparison returns exactly one entry for each (provider, format)
\* pair, in the order of the providers and then of the formats; the entry of
\* a pair whose token count call raises is an error entry with provider,
\* model, format_type and error, and the pairs after it are still processed.
C25_OneResultPerPair ==
    /\ [](ResultsReturned => OneEntryPerPair)
    /\ [][RaiseGoesOn]_cvars

\* two providers and three formats; the csv call of each raises, and the
\* calls after it were made and returned
C25_Witness ==
    /\ ResultsReturned
    /\ Len(providers) = 2
    /\ Len(test_data) = 3
    /\ Len(results) = 6
    /\ IsErrorEntry(results[2])
    /\ IsResultEntry(results[3])
    /\ IsResultEntry(results[4])
    /\ IsErrorEntry(results[5])
    /\ IsResultEntry(results[6])

=============================================================================
